---- MODULE Spec2Model ----
(***************************************************************************)
(* cortex: two local bridge programs.                                      *)
(*                                                                         *)
(*   mcp_server.py            the tool-invocation surface: handle_call_tool *)
(*                            (show_popup, log_activity, anything else)     *)
(*   mac_screenshot_server.py the HTTP surface: ScreenshotHandler.do_GET    *)
(*                            (/screenshot, /health, /hello, anything else) *)
(*                                                                         *)
(* A behaviour is a run of one of the two programs (variable program).     *)
(* Each handler is synchronous: one action is one whole handler call, with *)
(* the outcome of the external command, of the file system and of the      *)
(* client socket drawn from the sets below.                                *)
(***************************************************************************)
EXTENDS Integers, Sequences, FiniteSets, TLC

\* Bounds of the model.
MaxTime == 2      \* tool calls handled in one run of mcp_server.py
MaxLen == 3       \* bytes in a captured image
MaxSecond == 1    \* wall-clock seconds a run of the screenshot server spans

VARIABLES
    program,            \* which program this run is
    \* ---- mcp_server.py
    loop_time,          \* asyncio event-loop clock
    log,                \* ~/Library/Logs/Cortex/activity.log, a sequence of lines
    logged,             \* history: arguments of the log_activity calls that reported success
    osascript_spawned,  \* external processes started so far
    osascript_alive,    \* external processes still running
    name,               \* the last call: tool name
    arguments,          \* the last call: arguments
    outcome,            \* the last call: what the osascript child did
    applescript,        \* the last call: command text handed to osascript, or NoCommand
    result,             \* the last call: the returned list of TextContent
    \* ---- mac_screenshot_server.py
    now,                \* wall clock, in seconds
    temp_file,          \* /tmp/simulator_screenshot_<now>.png: its bytes, or NoFile
    path,               \* the last request: self.path
    env,                \* the last request: outcome of the command, of os.remove, of the socket
    responses,          \* the last request: responses the handler started, in order
    escaped,            \* the last request: an exception left do_GET
    xcrun_spawned,      \* the last request: a capture process was started
    xcrun_alive,        \* the last request: the capture process is still running
    file_after          \* the last request: its temporary file when the handler returned

mcp_vars == <<loop_time, log, logged, osascript_spawned, osascript_alive,
              name, arguments, outcome, applescript, result>>
http_vars == <<now, temp_file, path, env, responses, escaped, xcrun_spawned,
               xcrun_alive, file_after>>
vars == <<program, mcp_vars, http_vars>>

\* timeout= of the two subprocess.run calls, in seconds.
PopupTimeout == 15
CaptureTimeout == 10

None == "None"
NoCommand == <<>>
NoFile == <<-1>>      \* no such file (file contents are sequences of bytes)

(***************************************************************************)
(* subprocess.run(cmd, capture_output=True, text=True, timeout=T)          *)
(* The outcome of the child is an input: it exits with a return code and   *)
(* stderr text, it outlives the timeout, or it cannot be started at all.   *)
(* On a timeout subprocess.run kills the child and waits for it before it  *)
(* raises TimeoutExpired.                                                  *)
(***************************************************************************)
ProcOutcomes ==
    { [kind |-> "exit", returncode |-> 0, stderr |-> ""],
      [kind |-> "exit", returncode |-> 1, stderr |-> "execution error (-1743)"],
      [kind |-> "exit", returncode |-> 1, stderr |-> ""],
      [kind |-> "hang", returncode |-> 0, stderr |-> ""],
      [kind |-> "nostart", returncode |-> 0, stderr |-> ""] }

subprocess_run_leaks(child, timeout) ==
    [ exc        |-> CASE child.kind = "hang"    -> "TimeoutExpired"
                       [] child.kind = "nostart" -> "FileNotFoundError"
                       [] OTHER                    -> None,
      exc_str    |-> CASE child.kind = "hang"    ->
                            <<"Command timed out after ", ToString(timeout), " seconds">>
                       [] child.kind = "nostart" ->
                            <<"[Errno 2] No such file or directory">>
                       [] OTHER                    -> <<>>,
      returncode |-> child.returncode,
      stderr     |-> child.stderr,
      spawned    |-> IF child.kind = "nostart" THEN 0 ELSE 1,
      alive      |-> IF child.kind = "hang" THEN 1 ELSE 0 ]

subprocess_run(child, timeout) ==
    [ exc        |-> CASE child.kind = "hang"    -> "TimeoutExpired"
                       [] child.kind = "nostart" -> "FileNotFoundError"
                       [] OTHER                    -> None,
      exc_str    |-> CASE child.kind = "hang"    ->
                            <<"Command timed out after ", ToString(timeout), " seconds">>
                       [] child.kind = "nostart" ->
                            <<"[Errno 2] No such file or directory">>
                       [] OTHER                    -> <<>>,
      returncode |-> child.returncode,
      stderr     |-> child.stderr,
      spawned    |-> IF child.kind = "nostart" THEN 0 ELSE 1,
      alive      |-> 0 ]

(***************************************************************************)
(* json.dumps of a dict: the members in insertion order, each a pair of    *)
(* the key and the JSON text of the value, as a sequence of tokens.        *)
(***************************************************************************)
json_str(s) == <<"\"", s, "\"">>
json_bool(b) == IF b THEN <<"true">> ELSE <<"false">>
json_num(n) == <<ToString(n)>>


(***************************************************************************)
(* mcp_server.py                                                           *)
(***************************************************************************)
TextContent(parts) == [type |-> "text", text |-> parts]

\* dict.get(key, default)
Get(d, key, default) == IF key \in DOMAIN d THEN d[key] ELSE default

Restrict(f, D) == [k \in D |-> f[k]]

\* Calls a client can make: any tool name, any subset of the declared
\* properties, a severity inside or outside the declared enum.
ToolNames == {"show_popup", "log_activity", "take_screenshot", "Show_Popup", ""}

PopupArguments ==
    { Restrict([title |-> "Focus", message |-> "Back to work", severity |-> s], D) :
        s \in {"info", "warning", "critical", "urgent"},
        D \in SUBSET {"title", "message", "severity"} }

LogArguments ==
    { Restrict([activity |-> "browsing", productive |-> p, app_name |-> "Safari"], D) :
        p \in BOOLEAN,
        D \in SUBSET {"activity", "productive", "app_name"} }

OtherArguments ==
    { <<>>, [title |-> "Focus", message |-> "Back to work"],
      [activity |-> "browsing", productive |-> FALSE] }

ArgumentsFor(nm) ==
    CASE nm = "show_popup"   -> PopupArguments
      [] nm = "log_activity" -> LogArguments
      [] OTHER               -> OtherArguments

\* The if / elif / else chain on the tool name.
tool_branch_ignoring_case(nm) ==
    IF nm \in {"show_popup", "Show_Popup"} THEN "show_popup"
    ELSE IF nm = "log_activity" THEN "log_activity"
    ELSE "else"

tool_branch(nm) ==
    IF nm = "show_popup" THEN "show_popup"
    ELSE IF nm = "log_activity" THEN "log_activity"
    ELSE "else"

\* The f-string handed to osascript -e.
applescript_text(title, message, severity) ==
    <<"display alert \"", title, "\" message \"", message, "\" as ", severity,
      " giving up after 10">>

\* What show_popup returns for each way subprocess.run can end.
popup_result_unchecked(run, title, message) ==
    IF run.exc = "TimeoutExpired"
    THEN <<TextContent(<<"Popup display timed out">>)>>
    ELSE IF run.exc # None
    THEN <<TextContent(<<"Error displaying popup: ">> \o run.exc_str)>>
    ELSE <<TextContent(<<"Popup displayed successfully: '", title, "' - '", message, "'">>)>>

popup_result(run, title, message) ==
    IF run.exc = "TimeoutExpired"
    THEN <<TextContent(<<"Popup display timed out">>)>>
    ELSE IF run.exc # None
    THEN <<TextContent(<<"Error displaying popup: ">> \o run.exc_str)>>
    ELSE IF run.returncode = 0
    THEN <<TextContent(<<"Popup displayed successfully: '", title, "' - '", message, "'">>)>>
    ELSE <<TextContent(<<"Failed to display popup: ", run.stderr>>)>>

\* json.dumps(log_entry): one line of activity.log (the trailing "\n" is what
\* separates the elements of log).
log_line(timestamp, activity, productive, app_name) ==
    << <<"timestamp", json_num(timestamp)>>,
       <<"activity", json_str(activity)>>,
       <<"productive", json_bool(productive)>>,
       <<"app_name", json_str(app_name)>> >>

\* open(path, "a") ... f.write(line)
append_truncating(file, line) == <<line>>

append(file, line) == Append(file, line)

\* handle_call_tool(name, arguments): the returned content and every effect.
\*   child: what the osascript child does;  io_ok: whether makedirs/open/write
\*   succeed;  t: the event-loop time read by the handler.
handle_call_tool(nm, args, child, io_ok, t, file) ==
    CASE tool_branch(nm) = "show_popup" ->
            LET title    == Get(args, "title", "Productivity Alert")
                message  == Get(args, "message", "Please return to your productive work")
                severity == Get(args, "severity", "warning")
                run      == subprocess_run(child, PopupTimeout)
            IN  [ result      |-> popup_result(run, title, message),
                  applescript |-> applescript_text(title, message, severity),
                  spawned     |-> run.spawned,
                  alive       |-> run.alive,
                  log         |-> file ]
      [] tool_branch(nm) = "log_activity" ->
            LET activity   == Get(args, "activity", "Unknown activity")
                productive == Get(args, "productive", FALSE)
                app_name   == Get(args, "app_name", "Unknown app")
            IN  [ result      |-> IF io_ok
                                  THEN <<TextContent(<<"Activity logged: ", activity, " (",
                                           IF productive THEN "productive" ELSE "unproductive",
                                           ") in ", app_name>>)>>
                                  ELSE <<TextContent(<<"Failed to log activity: ",
                                           "[Errno 13] Permission denied">>)>>,
                  applescript |-> NoCommand,
                  spawned     |-> 0,
                  alive       |-> 0,
                  log         |-> IF io_ok
                                  THEN append(file, log_line(t, activity, productive, app_name))
                                  ELSE file ]
      [] OTHER ->
            [ result      |-> <<TextContent(<<"Unknown tool: ", nm>>)>>,
              applescript |-> NoCommand,
              spawned     |-> 0,
              alive       |-> 0,
              log         |-> file ]

\* The texts handle_call_tool can return, by their fixed first part.
IsText(r, prefix) == Len(r) = 1 /\ r[1].type = "text" /\ r[1].text[1] = prefix
IsPopupSuccess(r) == IsText(r, "Popup displayed successfully: '")
IsPopupTimeout(r) == IsText(r, "Popup display timed out")
IsPopupFailed(r) == IsText(r, "Failed to display popup: ")
IsPopupError(r) == IsText(r, "Error displaying popup: ")
IsLogged(r) == IsText(r, "Activity logged: ")
IsLogFailed(r) == IsText(r, "Failed to log activity: ")
IsUnknownTool(r) == IsText(r, "Unknown tool: ")

\* The outcome of the child matters to show_popup alone, that of the file
\* system to log_activity alone.
OutcomesFor(nm) ==
    IF nm = "show_popup" THEN ProcOutcomes
    ELSE {[kind |-> "exit", returncode |-> 0, stderr |-> ""]}

IoFor(nm) == IF nm = "log_activity" THEN BOOLEAN ELSE {TRUE}

CallTool ==
    /\ program = "mcp_server"
    /\ loop_time < MaxTime
    /\ \E nm \in ToolNames :
       \E args \in ArgumentsFor(nm) :
       \E child \in OutcomesFor(nm) :
       \E io_ok \in IoFor(nm) :
       \E r \in {handle_call_tool(nm, args, child, io_ok, loop_time + 1, log)} :
          /\ loop_time' = loop_time + 1
          /\ name' = nm
          /\ arguments' = args
          /\ outcome' = child
          /\ result' = r.result
          /\ applescript' = r.applescript
          /\ osascript_spawned' = osascript_spawned + r.spawned
          /\ osascript_alive' = osascript_alive + r.alive
          /\ log' = r.log
          /\ logged' = IF tool_branch(nm) = "log_activity" /\ IsLogged(r.result)
                       THEN Append(logged, args) ELSE logged
    /\ UNCHANGED <<program, http_vars>>

(***************************************************************************)
(* mac_screenshot_server.py                                                *)
(***************************************************************************)
\* Bytes a capture can write: the first byte of a PNG, and all bits set.
ByteValues == {137, 255}

Images == UNION {[1..n -> ByteValues] : n \in 0..MaxLen}

B64Alphabet ==
    << "A", "B", "C", "D", "E", "F", "G", "H", "I", "J", "K", "L", "M",
       "N", "O", "P", "Q", "R", "S", "T", "U", "V", "W", "X", "Y", "Z",
       "a", "b", "c", "d", "e", "f", "g", "h", "i", "j", "k", "l", "m",
       "n", "o", "p", "q", "r", "s", "t", "u", "v", "w", "x", "y", "z",
       "0", "1", "2", "3", "4", "5", "6", "7", "8", "9", "+", "/" >>

B64Char(sextet) == B64Alphabet[sextet + 1]
B64Index(c) == (CHOOSE i \in 1..64 : B64Alphabet[i] = c) - 1

\* base64.b64encode(image_bytes).decode('utf-8'), as a sequence of characters:
\* three bytes make four characters, a last group of one or two bytes is padded.
RECURSIVE b64encode_unpadded(_)
b64encode_unpadded(b) ==
    IF Len(b) = 0 THEN <<>>
    ELSE IF Len(b) = 1
    THEN << B64Char(b[1] \div 4), B64Char((b[1] % 4) * 16) >>
    ELSE IF Len(b) = 2
    THEN << B64Char(b[1] \div 4), B64Char((b[1] % 4) * 16 + b[2] \div 16),
            B64Char((b[2] % 16) * 4) >>
    ELSE << B64Char(b[1] \div 4), B64Char((b[1] % 4) * 16 + b[2] \div 16),
            B64Char((b[2] % 16) * 4 + b[3] \div 64), B64Char(b[3] % 64) >>
         \o b64encode_unpadded(SubSeq(b, 4, Len(b)))

RECURSIVE b64encode(_)
b64encode(b) ==
    IF Len(b) = 0 THEN <<>>
    ELSE IF Len(b) = 1
    THEN << B64Char(b[1] \div 4), B64Char((b[1] % 4) * 16), "=", "=" >>
    ELSE IF Len(b) = 2
    THEN << B64Char(b[1] \div 4), B64Char((b[1] % 4) * 16 + b[2] \div 16),
            B64Char((b[2] % 16) * 4), "=" >>
    ELSE << B64Char(b[1] \div 4), B64Char((b[1] % 4) * 16 + b[2] \div 16),
            B64Char((b[2] % 16) * 4 + b[3] \div 64), B64Char(b[3] % 64) >>
         \o b64encode(SubSeq(b, 4, Len(b)))

\* base64.b64decode, as the client of the payload applies it: every group of
\* four characters gives three bytes, fewer where the group is padded; input
\* whose length is no multiple of four is rejected (binascii.Error).
B64Invalid == <<-2>>

RECURSIVE b64decode(_)
b64decode(c) ==
    IF Len(c) = 0 THEN <<>>
    ELSE IF Len(c) < 4 THEN B64Invalid
    ELSE LET n1 == B64Index(c[1])
             n2 == B64Index(c[2])
             rest == b64decode(SubSeq(c, 5, Len(c)))
         IN  IF c[3] = "=" THEN << n1 * 4 + n2 \div 16 >>
             ELSE IF c[4] = "="
             THEN << n1 * 4 + n2 \div 16, (n2 % 16) * 16 + B64Index(c[3]) \div 4 >>
             ELSE IF rest = B64Invalid THEN B64Invalid
             ELSE << n1 * 4 + n2 \div 16, (n2 % 16) * 16 + B64Index(c[3]) \div 4,
                     (B64Index(c[3]) % 4) * 64 + B64Index(c[4]) >> \o rest

\* json.dumps of a str given as a sequence of characters or parts.
json_text(parts) == <<"\"">> \o parts \o <<"\"">>

\* datetime.datetime.now().isoformat()
isoformat(t) == <<"isoformat", ToString(t)>>

\* The headers each handler of the file sets by hand.
JsonHeaders ==
    { <<"Content-Type", "application/json">>, <<"Access-Control-Allow-Origin", "*">> }

\* The headers BaseHTTPRequestHandler.send_error sets.
ErrorHeaders ==
    { <<"Content-Type", "text/html;charset=utf-8">>, <<"Connection", "close">>,
      <<"Content-Length", "body">> }

\* The client socket: it stays open, or the peer is gone, and then every
\* write from the second one on, or every write, raises BrokenPipeError.
Connections == {"open", "closes_after_first_write", "closed"}

WriteOk(conn, nth) == conn = "open" \/ (conn = "closes_after_first_write" /\ nth = 1)

BrokenPipe == <<"[Errno 32] Broken pipe">>

\* send_response(status); send_header(...); end_headers(); wfile.write(body)
\* after `written` earlier writes of the same request: end_headers is one
\* write of the status line and headers, the body another.
send(status, headers, body, written, conn) ==
    LET head_ok == WriteOk(conn, written + 1)
        body_ok == head_ok /\ WriteOk(conn, written + 2)
    IN  [ response |-> [ status    |-> status,
                         headers   |-> headers,
                         body      |-> body,
                         delivered |-> IF ~head_ok THEN "nothing"
                                       ELSE IF ~body_ok THEN "headers" ELSE "all" ],
          raised   |-> ~body_ok,
          written  |-> written + (IF head_ok THEN 2 ELSE 1) ]

success_body(b64_image, t) ==
    << <<"success", json_bool(TRUE)>>,
       <<"image", json_text(b64_image)>>,
       <<"timestamp", json_text(isoformat(t))>> >>

error_body(exc_str) ==
    << <<"success", json_bool(FALSE)>>,
       <<"error", json_text(exc_str)>> >>

\* os.remove(temp_filename) inside try / except: pass
remove(file, rm_ok) == IF rm_ok THEN NoFile ELSE file

\* handle_screenshot_request at second t; `file` is what temp_filename, the
\* name made of that second, holds when the handler starts.
\*   e.proc: what the xcrun child does;  e.wrote: the bytes it writes to
\*   temp_filename, or NoFile;  e.rm_ok: whether os.remove succeeds;
\*   e.conn: the client socket.
handle_screenshot_request(file, t, e) ==
    LET run        == subprocess_run(e.proc, CaptureTimeout)
        captured   == IF e.wrote # NoFile THEN e.wrote ELSE file
        failed     == run.exc # None \/ run.returncode # 0 \/ captured = NoFile
        exc_str    == IF run.exc # None THEN run.exc_str
                      ELSE IF run.returncode # 0
                      THEN <<"Simulator screenshot failed: ", run.stderr>>
                      ELSE <<"[Errno 2] No such file or directory: ", "temp_filename">>
        cleaned    == remove(captured, e.rm_ok)
        ok         == send(200, JsonHeaders, success_body(b64encode(captured), t),
                           0, e.conn)
        err_first  == send(500, JsonHeaders, error_body(exc_str), 0, e.conn)
        err_second == send(500, JsonHeaders, error_body(BrokenPipe), ok.written, e.conn)
    IN  IF failed
        THEN [ responses |-> <<err_first.response>>,
               escaped   |-> err_first.raised,
               file      |-> captured,
               spawned   |-> run.spawned = 1,
               alive     |-> run.alive = 1 ]
        ELSE IF ~ok.raised
        THEN [ responses |-> <<ok.response>>,
               escaped   |-> FALSE,
               file      |-> cleaned,
               spawned   |-> TRUE,
               alive     |-> run.alive = 1 ]
        ELSE [ responses |-> <<ok.response, err_second.response>>,
               escaped   |-> err_second.raised,
               file      |-> cleaned,
               spawned   |-> TRUE,
               alive     |-> run.alive = 1 ]

\* A handler that only writes one response and lets a failed write propagate.
respond(status, headers, body, file, conn) ==
    LET r == send(status, headers, body, 0, conn)
    IN  [ responses |-> <<r.response>>,
          escaped   |-> r.raised,
          file      |-> file,
          spawned   |-> FALSE,
          alive     |-> FALSE ]

handle_health_check(file, conn) ==
    respond(200, JsonHeaders,
            << <<"status", json_str("healthy")>>,
               <<"server", json_str("mac_screenshot_server")>> >>,
            file, conn)

handle_hello_request(file, conn) ==
    respond(200, JsonHeaders, << <<"message", json_str("Hello from Mac!")>> >>,
            file, conn)

send_error(code, message, file, conn) ==
    respond(code, ErrorHeaders, <<"Error response", ToString(code), message>>,
            file, conn)

\* The if / elif / else chain of do_GET on self.path.
route_by_prefix(p) ==
    IF p \in {"/screenshot", "/screenshot/", "/screenshot?x=1"} THEN "handle_screenshot_request"
    ELSE IF p = "/health" THEN "handle_health_check"
    ELSE IF p = "/hello" THEN "handle_hello_request"
    ELSE "send_error"

route(p) ==
    IF p = "/screenshot" THEN "handle_screenshot_request"
    ELSE IF p = "/health" THEN "handle_health_check"
    ELSE IF p = "/hello" THEN "handle_hello_request"
    ELSE "send_error"

do_GET(p, file, t, e) ==
    CASE route(p) = "handle_screenshot_request" -> handle_screenshot_request(file, t, e)
      [] route(p) = "handle_health_check"       -> handle_health_check(file, e.conn)
      [] route(p) = "handle_hello_request"      -> handle_hello_request(file, e.conn)
      [] OTHER                                  -> send_error(404, "Not Found", file, e.conn)

Paths == {"/screenshot", "/health", "/hello", "/", "/screenshot/", "/screenshot?x=1",
          "/Health", "/favicon.ico"}

\* What the environment can do during one request: e.proc is what the xcrun
\* child does, e.wrote the bytes it writes to temp_filename (NoFile: nothing;
\* only a child that exits 0 writes), e.rm_ok whether os.remove succeeds,
\* e.conn the client socket.
Exit0 == [kind |-> "exit", returncode |-> 0, stderr |-> ""]

ScreenshotEnvironments ==
    { [proc |-> Exit0, wrote |-> w, rm_ok |-> r, conn |-> c] :
        w \in Images \cup {NoFile}, r \in BOOLEAN, c \in Connections }
    \cup
    { [proc |-> o, wrote |-> NoFile, rm_ok |-> TRUE, conn |-> c] :
        o \in ProcOutcomes \ {Exit0}, c \in Connections }

\* A request that starts no child and touches no file.
OtherEnvironments ==
    { [proc |-> Exit0, wrote |-> NoFile, rm_ok |-> TRUE, conn |-> c] : c \in Connections }

EnvironmentsFor(p) ==
    IF route(p) = "handle_screenshot_request" THEN ScreenshotEnvironments
    ELSE OtherEnvironments

Get_ ==
    /\ program = "mac_screenshot_server"
    /\ \E p \in Paths :
       \E e \in EnvironmentsFor(p) :
       \E r \in {do_GET(p, temp_file, now, e)} :
          /\ path' = p
          /\ env' = e
          /\ responses' = r.responses
          /\ escaped' = r.escaped
          /\ temp_file' = r.file
          /\ file_after' = r.file
          /\ xcrun_spawned' = r.spawned
          /\ xcrun_alive' = r.alive
    /\ UNCHANGED <<program, now, mcp_vars>>

\* The wall clock reaches the next second: temp_filename becomes a name no
\* request has used, and a file left under the old name is never touched again.
Tick ==
    /\ program = "mac_screenshot_server"
    /\ now < MaxSecond
    /\ now' = now + 1
    /\ temp_file' = NoFile
    /\ UNCHANGED <<program, mcp_vars, path, env, responses, escaped,
                   xcrun_spawned, xcrun_alive, file_after>>

Init ==
    /\ program \in {"mcp_server", "mac_screenshot_server"}
    /\ loop_time = 0
    /\ log = <<>>
    /\ logged = <<>>
    /\ osascript_spawned = 0
    /\ osascript_alive = 0
    /\ name = None
    /\ arguments = <<>>
    /\ outcome = None
    /\ applescript = NoCommand
    /\ result = <<>>
    /\ now = 0
    /\ temp_file = NoFile
    /\ path = None
    /\ env = None
    /\ responses = <<>>
    /\ escaped = FALSE
    /\ xcrun_spawned = FALSE
    /\ xcrun_alive = FALSE
    /\ file_after = NoFile

Next == CallTool \/ Get_ \/ Tick

Spec == Init /\ [][Next]_vars

(***************************************************************************)
(* Reading what the handlers produced.                                     *)
(***************************************************************************)
\* A step of handle_call_tool: the event-loop clock is read once per call.
Called == loop_time' # loop_time

\* json.loads, as far as a reader of one member needs it.
Member(doc, key) == doc[CHOOSE i \in 1..Len(doc) : doc[i][1] = key][2]
Keys(doc) == [i \in 1..Len(doc) |-> doc[i][1]]
Unquote(text) == SubSeq(text, 2, Len(text) - 1)

Cors == <<"Access-Control-Allow-Origin", "*">>

IsJson(r) == <<"Content-Type", "application/json">> \in r.headers

\* 200 {"success": true, "image": ..., "timestamp": ...}
IsSuccess200(r) ==
    /\ r.status = 200
    /\ IsJson(r)
    /\ Keys(r.body) = <<"success", "image", "timestamp">>
    /\ Member(r.body, "success") = <<"true">>

\* 500 {"success": false, "error": ...}
IsFailure500(r) ==
    /\ r.status = 500
    /\ IsJson(r)
    /\ Keys(r.body) = <<"success", "error">>
    /\ Member(r.body, "success") = <<"false">>

Statuses == {responses[i].status : i \in 1..Len(responses)}

Severities == {"info", "warning", "critical"}

MissingRequired(nm, args) ==
    \/ nm = "show_popup" /\ ~({"title", "message"} \subseteq DOMAIN args)
    \/ nm = "log_activity" /\ ~({"activity", "productive"} \subseteq DOMAIN args)

(***************************************************************************)
(* C1.  A call of any tool name other than show_popup and log_activity     *)
(* returns the single text "Unknown tool: <name>", starts no external      *)
(* process and leaves the activity log as it was.                          *)
(***************************************************************************)
C1_UnknownToolHasNoEffect ==
    [][ (Called /\ name' \notin {"show_popup", "log_activity"}) =>
            /\ result' = <<TextContent(<<"Unknown tool: ", name'>>)>>
            /\ osascript_spawned' = osascript_spawned
            /\ osascript_alive' = osascript_alive
            /\ applescript' = NoCommand
            /\ log' = log ]_vars

\* An unrecognized name that differs from show_popup only in case, called
\* after a popup has started a process.
C1_Witness ==
    /\ name = "Show_Popup"
    /\ "title" \in DOMAIN arguments
    /\ IsUnknownTool(result)
    /\ result[1].text[2] = "Show_Popup"
    /\ osascript_spawned = 1
    /\ loop_time = 2

(***************************************************************************)
(* C2.  A show_popup call without title or without message, or a          *)
(* log_activity call without activity or without productive, is rejected:  *)
(* it starts no external process, appends no log line and reports neither  *)
(* "Popup displayed successfully" nor "Activity logged".                   *)
(***************************************************************************)
C2_MissingRequiredIsRejected ==
    [][ (Called /\ MissingRequired(name', arguments')) =>
            /\ osascript_spawned' = osascript_spawned
            /\ log' = log
            /\ ~IsPopupSuccess(result')
            /\ ~IsLogged(result') ]_vars

(***************************************************************************)
(* C3.  When the external command outlives its timeout (15 s for the      *)
(* alert, 10 s for the capture) the child is no longer running when the    *)
(* handler returns, the handler reports the timeout (show_popup returns    *)
(* "Popup display timed out"; /screenshot answers 500 with success false   *)
(* and the timeout as error, delivered whenever the client is still        *)
(* connected) and no success is reported for that call or request.         *)
(***************************************************************************)
C3_TimeoutIsReportedAndChildKilled ==
    /\ (program = "mcp_server" /\ name = "show_popup" /\ outcome.kind = "hang") =>
            /\ result = <<TextContent(<<"Popup display timed out">>)>>
            /\ osascript_alive = 0
    /\ (program = "mcp_server") => osascript_alive = 0
    /\ (program = "mac_screenshot_server" /\ path = "/screenshot"
            /\ env.proc.kind = "hang") =>
            /\ ~xcrun_alive
            /\ 200 \notin Statuses
            /\ Len(responses) = 1
            /\ IsFailure500(responses[1])
            /\ Member(responses[1].body, "error") =
                   json_text(<<"Command timed out after ", "10", " seconds">>)
            /\ (env.conn = "open" => responses[1].delivered = "all" /\ ~escaped)
    /\ (program = "mac_screenshot_server") => ~xcrun_alive

\* A capture that hangs, answered to a client that is still there.
C3_Witness ==
    /\ path = "/screenshot"
    /\ env.proc.kind = "hang"
    /\ env.conn = "open"
    /\ xcrun_spawned
    /\ responses[1].status = 500
    /\ responses[1].delivered = "all"

(***************************************************************************)
(* C4.  Every GET /screenshot produces exactly one complete response,      *)
(* whatever the command, the file read, the removal and the response       *)
(* writes do: a 200 success body or a 500 failure body; no exception       *)
(* leaves the handler and no 500 is started after a 200.                   *)
(***************************************************************************)
C4_ExactlyOneResponseNothingEscapes ==
    path = "/screenshot" =>
        /\ ~escaped
        /\ Len(responses) = 1
        /\ responses[1].delivered = "all"
        /\ IsSuccess200(responses[1]) \/ IsFailure500(responses[1])

(***************************************************************************)
(* C5 as stated.  When the capture command exits 0 having written N bytes  *)
(* to the target path, the handler answers with the success body whose     *)
(* image decodes to exactly those bytes, and the temporary file no longer  *)
(* exists when the handler has returned.                                   *)
(***************************************************************************)
Captured == path = "/screenshot" /\ env.proc = Exit0 /\ env.wrote # NoFile

SuccessCarries(bytes) ==
    /\ Len(responses) >= 1
    /\ IsSuccess200(responses[1])
    /\ b64decode(Unquote(Member(responses[1].body, "image"))) = bytes
    /\ Len(b64decode(Unquote(Member(responses[1].body, "image")))) = Len(bytes)

C5_TempFileAlwaysGone ==
    Captured => SuccessCarries(env.wrote) /\ file_after = NoFile

(***************************************************************************)
(* C5, amended.  When the capture command exits 0 having written N bytes   *)
(* to the target path, the handler answers with the success body whose     *)
(* image decodes to exactly those bytes (and with nothing else when the    *)
(* client is still connected); when the handler has returned the           *)
(* temporary file is gone if os.remove succeeded and is still there, with  *)
(* the captured bytes, if os.remove failed.                                *)
(***************************************************************************)
C5_ImageRoundTripFileGoneIfRemoved ==
    Captured =>
        /\ SuccessCarries(env.wrote)
        /\ env.rm_ok => file_after = NoFile
        /\ ~env.rm_ok => file_after = env.wrote
        /\ env.conn = "open" =>
              Len(responses) = 1 /\ responses[1].delivered = "all" /\ ~escaped

\* A capture of the two bytes 137, 255 (a padded last group, "if8="),
\* answered in full, its file surviving a failed os.remove.
C5_Witness ==
    /\ Captured
    /\ Len(env.wrote) = 2
    /\ ~env.rm_ok
    /\ file_after = env.wrote
    /\ env.conn = "open"
    /\ responses[1].status = 200
    /\ Member(responses[1].body, "image") = json_text(<<"i", "f", "8", "=">>)

(***************************************************************************)
(* C6.  show_popup tells the ways the alert command can end apart: a       *)
(* timeout gives "Popup display timed out", a non-zero exit gives "Failed  *)
(* to display popup: " followed by the command's stderr, any other         *)
(* exception gives "Error displaying popup: " followed by its text, and    *)
(* the success text, naming title and message, is returned exactly when    *)
(* the command ran to an exit status of 0.                                 *)
(***************************************************************************)
C6_PopupOutcomesDistinguished ==
    name = "show_popup" =>
        LET title   == Get(arguments, "title", "Productivity Alert")
            message == Get(arguments, "message", "Please return to your productive work")
        IN  /\ outcome.kind = "hang" => IsPopupTimeout(result)
            /\ (outcome.kind = "exit" /\ outcome.returncode # 0) =>
                  result = <<TextContent(<<"Failed to display popup: ", outcome.stderr>>)>>
            /\ outcome.kind = "nostart" =>
                  IsPopupError(result) /\ Len(result[1].text) > 1
            /\ (outcome.kind = "exit" /\ outcome.returncode = 0) =>
                  result = <<TextContent(<<"Popup displayed successfully: '", title,
                                           "' - '", message, "'">>)>>
            /\ IsPopupSuccess(result) =>
                  outcome.kind = "exit" /\ outcome.returncode = 0

\* The command exits 1 with a message on stderr.
C6_Witness ==
    /\ name = "show_popup"
    /\ outcome.kind = "exit"
    /\ outcome.returncode = 1
    /\ outcome.stderr = "execution error (-1743)"
    /\ result[1].text = <<"Failed to display popup: ", "execution error (-1743)">>

(***************************************************************************)
(* C7.  The activity log holds exactly one line per log_activity call      *)
(* that reported success, in call order; each line is a JSON object with   *)
(* the members timestamp, activity, productive and app_name, the last      *)
(* three being the call's arguments (the handler's defaults where the      *)
(* call gave none).  So no call alters or removes an earlier line, and     *)
(* show_popup and unknown-tool calls add none.                             *)
(***************************************************************************)
C7_LogIsOneLinePerLoggedCall ==
    /\ Len(log) = Len(logged)
    /\ \A i \in 1..Len(log) :
          /\ Keys(log[i]) = <<"timestamp", "activity", "productive", "app_name">>
          /\ Member(log[i], "activity") =
                 <<"\"", Get(logged[i], "activity", "Unknown activity"), "\"">>
          /\ Member(log[i], "productive") =
                 <<IF Get(logged[i], "productive", FALSE) THEN "true" ELSE "false">>
          /\ Member(log[i], "app_name") =
                 <<"\"", Get(logged[i], "app_name", "Unknown app"), "\"">>
          /\ Len(Member(log[i], "timestamp")) = 1

\* log_activity(activity="browsing", productive=false, app_name="Safari"),
\* then a second call that names no application.
C7_Witness ==
    /\ Len(log) = 2
    /\ logged[1] = [activity |-> "browsing", productive |-> FALSE, app_name |-> "Safari"]
    /\ logged[2] = [activity |-> "browsing", productive |-> TRUE]
    /\ Member(log[1], "app_name") = <<"\"", "Safari", "\"">>
    /\ Member(log[2], "app_name") = <<"\"", "Unknown app", "\"">>
    /\ name = "log_activity"

(***************************************************************************)
(* C8 as stated.  GET /screenshot and GET /health are the only routed      *)
(* paths: any other path is answered 404 and nothing else, and starts no   *)
(* external process.                                                       *)
(***************************************************************************)
Requested == program = "mac_screenshot_server" /\ path # None

C8_OnlyScreenshotAndHealthRouted ==
    (Requested /\ path \notin {"/screenshot", "/health"}) =>
        /\ Statuses = {404}
        /\ Len(responses) = 1
        /\ ~xcrun_spawned

(***************************************************************************)
(* C8, amended.  GET /screenshot, GET /health and GET /hello are the only  *)
(* routed paths, matched exactly: any other path is answered 404 and       *)
(* nothing else, starts no external process and leaves the temporary file  *)
(* alone; /hello is answered 200 with the member message.                  *)
(***************************************************************************)
C8_OnlyThreePathsRouted ==
    /\ (Requested /\ path \notin {"/screenshot", "/health", "/hello"}) =>
            /\ Statuses = {404}
            /\ Len(responses) = 1
            /\ ~xcrun_spawned
            /\ env.conn = "open" => responses[1].delivered = "all"
    /\ (Requested /\ path = "/hello") =>
            /\ Statuses = {200}
            /\ Keys(responses[1].body) = <<"message">>
            /\ ~xcrun_spawned
    /\ (Requested /\ path = "/health") =>
            /\ Statuses = {200}
            /\ Keys(responses[1].body) = <<"status", "server">>
            /\ Member(responses[1].body, "status") = <<"\"", "healthy", "\"">>
            /\ ~xcrun_spawned

\* /screenshot with a query string is no routed path.
C8_Witness ==
    /\ path = "/screenshot?x=1"
    /\ responses[1].status = 404
    /\ responses[1].delivered = "all"
    /\ ~xcrun_spawned

(***************************************************************************)
(* C9.  Every response the server starts, for every path and outcome,      *)
(* carries Access-Control-Allow-Origin: *.                                 *)
(***************************************************************************)
C9_EveryResponseAllowsAnyOrigin ==
    \A i \in 1..Len(responses) : Cors \in responses[i].headers

(***************************************************************************)
(* C10.  The severity in the command show_popup hands to osascript is one  *)
(* of info, warning and critical: a severity outside that set is replaced  *)
(* by the default, an omitted one is warning.                              *)
(***************************************************************************)
C10_SeverityIsOneOfTheThree ==
    name = "show_popup" =>
        /\ applescript[6] \in Severities
        /\ "severity" \notin DOMAIN arguments => applescript[6] = "warning"

====
